---- MODULE Spec2Model ----
(***************************************************************************)
(* Model of src/mt5_executor.py: a command-line bridge that either checks  *)
(* the connection to a MetaTrader5 terminal (--check-connection) or reads  *)
(* one JSON signal from standard input and submits one market order.       *)
(*                                                                         *)
(* The terminal (the MetaTrader5 binding) is the environment: every call   *)
(* to it is recorded in `calls` and its answer is chosen                   *)
(* nondeterministically among the answers the code distinguishes.          *)
(* account_info, symbol_info, symbol_select, symbol_info_tick and          *)
(* order_send may also raise; initialize, last_error and shutdown return.  *)
(* json.loads either returns the document's value or raises               *)
(* JSONDecodeError.                                                        *)
(***************************************************************************)
EXTENDS Integers, Sequences, FiniteSets, TLC

VARIABLES
    args,         \* argparse result: [check_connection |-> BOOLEAN]
    stdin,        \* the document on standard input
    pc,           \* position of the single thread of control
    session,      \* the terminal session: "closed" or "open"
    calls,        \* the terminal calls made so far, in order
    stdout,       \* the JSON objects printed so far, in order
    status,       \* <<exit status>> once the process has ended, << >> before
    signal_data,  \* execute_trade's argument
    loc,          \* execute_trade's locals symbol, volume, action, tp, sl
    request,      \* the request handed to order_send
    result        \* what order_send returned

vars == <<args, stdin, pc, session, calls, stdout, status, signal_data, loc,
          request, result>>

-----------------------------------------------------------------------------
(* Bounds *)

\* JSON numbers in a signal are drawn from 1..MaxNum
MaxNum == 2

-----------------------------------------------------------------------------
(* JSON values, as json.loads produces them *)

JNum(n)  == [t |-> "num",  n |-> n, s |-> ""]
JStr(s)  == [t |-> "str",  n |-> 0, s |-> s]
JBool(b) == [t |-> "bool", n |-> IF b THEN 1 ELSE 0, s |-> ""]
JNull    == [t |-> "null", n |-> 0, s |-> ""]
JList    == [t |-> "list", n |-> 0, s |-> ""]
JObj     == [t |-> "dict", n |-> 0, s |-> ""]
\* placeholder for a key a dict does not have; never read by the program
Absent   == [t |-> "absent", n |-> 0, s |-> ""]

\* None, as the terminal binding and Python return it
None == [none |-> TRUE]

\* status while the process has not ended
Running == <<>>

\* a Python exception: its class and str(e)
Exc(type, msg) == [type |-> type, msg |-> msg]
NoExc == Exc("", "")

-----------------------------------------------------------------------------
(* The signal: the value json.loads returned, passed to execute_trade *)

\* required_fields, in the order the loop visits them
required_fields == <<"symbol", "volume", "action", "tp", "sl">>

FieldNames == {required_fields[i] : i \in 1..Len(required_fields)}

\* string values of volume/tp/sl that float() accepts, with the float it
\* returns (surrounding whitespace is stripped); every other string is refused
FloatLiterals == ("3" :> 3) @@ (" 1 " :> 1)

\* values a signal carries for volume, tp and sl
NumberValues ==
    {JNum(n) : n \in 1..MaxNum}
        \cup {JStr("3"), JStr(" 1 "), JStr("abc"), JBool(TRUE), JNull, JList, JObj}

SymbolValues == {JStr("EURUSD"), JNull}

ActionValues == {JStr("BUY"), JStr("SELL"), JStr("buy"), JNull}

ValuesOf(f) ==
    CASE f = "symbol" -> SymbolValues
      [] f = "action" -> ActionValues
      [] OTHER        -> NumberValues

\* JSON objects: any subset of the five keys, each with one of its values
DictSignals ==
    { [kind |-> "dict", has |-> {f \in FieldNames : v[f] # Absent}, val |-> v] :
        v \in [symbol : SymbolValues \cup {Absent},
               volume : NumberValues \cup {Absent},
               action : ActionValues \cup {Absent},
               tp     : NumberValues \cup {Absent},
               sl     : NumberValues \cup {Absent}] }

NoValues == [f \in FieldNames |-> Absent]

\* JSON arrays and strings: `has` is the set of field names that `in` finds in
\* them (as elements, as substrings); a JSON number supports no `in` at all
OtherSignals ==
    { [kind |-> k, has |-> h, val |-> NoValues] :
        k \in {"list", "str"}, h \in SUBSET FieldNames }
        \cup { [kind |-> "int", has |-> {}, val |-> NoValues] }

Signals == DictSignals \cup OtherSignals

\* standard input: a JSON document (its value) or text that is not JSON
NotJson == [kind |-> "not json", has |-> {}, val |-> NoValues]

NoSignal == [kind |-> "unset", has |-> {}, val |-> NoValues]

-----------------------------------------------------------------------------
(* Python operations on the signal *)

\* type(v).__name__
TypeName(v) ==
    CASE v.t = "null" -> "NoneType"
      [] v.t = "num"  -> "int"
      [] v.t = "str"  -> "str"
      [] OTHER        -> v.t

\* str(v), as an f-string formats it
PyStr(v) ==
    CASE v.t = "str"  -> v.s
      [] v.t = "null" -> "None"

\* float(v): [exc, x]; ValueError for a string that is no number, TypeError
\* for a value that is neither a string nor a number
PyFloat(v) ==
    CASE v.t \in {"num", "bool"} -> [exc |-> NoExc, x |-> v.n]
      [] v.t = "str" ->
            IF v.s \in DOMAIN FloatLiterals
            THEN [exc |-> NoExc, x |-> FloatLiterals[v.s]]
            ELSE [exc |-> Exc("ValueError",
                              "could not convert string to float: '" \o v.s \o "'"),
                  x |-> 0]
      [] OTHER ->
            [exc |-> Exc("TypeError",
                         "float() argument must be a string or a real number, not '"
                             \o TypeName(v) \o "'"),
             x |-> 0]

\* variant: the loop keeps going and reports the last missing field
CheckFields_LastMissing(sig, i) ==
    LET missing == {j \in i..Len(required_fields) : required_fields[j] \notin sig.has}
    IN  IF sig.kind = "int"
        THEN Exc("TypeError", "argument of type 'int' is not iterable")
        ELSE IF missing = {} THEN NoExc
        ELSE Exc("ValueError",
                 "Missing required field: "
                     \o required_fields[CHOOSE j \in missing :
                                            \A k \in missing : k <= j])

\* the loop over required_fields from position i on: the exception it raises,
\* NoExc when it completes
RECURSIVE CheckFields(_, _)
CheckFields(sig, i) ==
    IF i > Len(required_fields) THEN NoExc
    ELSE IF sig.kind = "int"
         THEN Exc("TypeError", "argument of type 'int' is not iterable")
    ELSE IF required_fields[i] \notin sig.has
         THEN Exc("ValueError", "Missing required field: " \o required_fields[i])
    ELSE CheckFields(sig, i + 1)

\* signal_data[f], evaluated only after the loop found every field
GetItem(sig, f) ==
    CASE sig.kind = "dict" -> [exc |-> NoExc, v |-> sig.val[f]]
      [] sig.kind = "list" ->
            [exc |-> Exc("TypeError",
                         "list indices must be integers or slices, not str"),
             v |-> Absent]
      [] OTHER ->
            [exc |-> Exc("TypeError", "string indices must be integers, not 'str'"),
             v |-> Absent]

NoLoc == [symbol |-> Absent, volume |-> 0, action |-> Absent, tp |-> 0, sl |-> 0]

\* variant: the fields are found but volume, tp and sl are passed on as they
\* are, without float()
Validate_NoCoercion(sig) ==
    LET chk    == CheckFields(sig, 1)
        symbol == GetItem(sig, "symbol")
    IN  IF chk # NoExc THEN [exc |-> chk, loc |-> NoLoc]
        ELSE IF symbol.exc # NoExc THEN [exc |-> symbol.exc, loc |-> NoLoc]
        ELSE [exc |-> NoExc,
              loc |-> [symbol |-> symbol.v, volume |-> sig.val["volume"].n,
                       action |-> sig.val["action"], tp |-> sig.val["tp"].n,
                       sl |-> sig.val["sl"].n]]

\* the field check and the five assignments that follow it: the first
\* exception raised in statement order, else the locals
Validate(sig) ==
    LET chk    == CheckFields(sig, 1)
        symbol == GetItem(sig, "symbol")
        volume == PyFloat(sig.val["volume"])
        tp     == PyFloat(sig.val["tp"])
        sl     == PyFloat(sig.val["sl"])
    IN  IF chk # NoExc THEN [exc |-> chk, loc |-> NoLoc]
        ELSE IF symbol.exc # NoExc THEN [exc |-> symbol.exc, loc |-> NoLoc]
        ELSE IF volume.exc # NoExc THEN [exc |-> volume.exc, loc |-> NoLoc]
        ELSE IF tp.exc # NoExc THEN [exc |-> tp.exc, loc |-> NoLoc]
        ELSE IF sl.exc # NoExc THEN [exc |-> sl.exc, loc |-> NoLoc]
        ELSE [exc |-> NoExc,
              loc |-> [symbol |-> symbol.v, volume |-> volume.x,
                       action |-> sig.val["action"], tp |-> tp.x, sl |-> sl.x]]

-----------------------------------------------------------------------------
(* Output objects *)

ErrorOutput(type, msg) ==
    [success |-> FALSE, error |-> [type |-> type, message |-> msg]]

\* execute_trade's two except clauses: `except ValueError` is tried first
ExceptClause(e) ==
    IF e.type = "ValueError"
    THEN ErrorOutput("VALIDATION_ERROR", e.msg)
    ELSE ErrorOutput("EXECUTION_ERROR", e.msg)

\* check_connection's except clause
ConnectionError(e) ==
    [success |-> FALSE, error |-> [message |-> e.msg, type |-> "CONNECTION_ERROR"]]

InitializationFailed(code) ==
    [success |-> FALSE,
     error |-> [code |-> code, message |-> "MT5 initialization failed"]]

InvalidJson ==
    ErrorOutput("INVALID_JSON", "Failed to parse signal data")

\* check_connection's result object
ConnectionResult(account_info) ==
    LET connected == account_info # None
    IN  [success |-> connected,
         account_info |-> IF connected
                          THEN [login   |-> account_info.login,
                                server  |-> account_info.server,
                                balance |-> account_info.balance,
                                equity  |-> account_info.equity]
                          ELSE None]

\* execute_trade's success response
SuccessResponse(res) ==
    [success |-> TRUE,
     order |-> [ticket |-> res.order, volume |-> res.volume,
                price |-> res.price, comment |-> res.comment]]

-----------------------------------------------------------------------------
(* The terminal: the answers its calls can give *)

\* one terminal call: the function, its argument, what it returned
Call(f, a, r) == [f |-> f, arg |-> a, ret |-> r]

\* a returned flag, a raised exception
Flag(b)   == [ok |-> b]
Raised(e) == [raised |-> e]

Shutdown == Call("shutdown", Absent, None)

\* mt5.last_error() after a failed initialize
LastErrors == {"RES_E_INTERNAL_FAIL_INIT", "RES_E_AUTH_FAILED"}

\* mt5.account_info(): an account, or None when no account is logged in
Accounts ==
    {[login |-> 1001, server |-> "Demo-Server", balance |-> 500, equity |-> 480]}

\* mt5.symbol_info(symbol): the instrument with its visibility flag, or None
SymbolInfos == {[visible |-> TRUE], [visible |-> FALSE]}

\* mt5.symbol_info_tick(symbol): a quote, or None
Ticks == {[ask |-> 12, bid |-> 11]}

\* mt5.order_send(request): a result with its status code, or None
OrderResults(req) ==
    { [retcode |-> "TRADE_RETCODE_DONE", order |-> 7001, volume |-> req.volume,
       price |-> req.price, comment |-> "Request executed"],
      [retcode |-> "TRADE_RETCODE_DONE_PARTIAL", order |-> 7002,
       volume |-> req.volume, price |-> req.price,
       comment |-> "Only part of the request was completed"],
      [retcode |-> "TRADE_RETCODE_REJECT", order |-> 0, volume |-> 0,
       price |-> 0, comment |-> "Request rejected"] }

\* what a terminal call raises when it fails unexpectedly
TerminalErrors == {Exc("RuntimeError", "terminal call failed")}

NoRequest == [unset |-> TRUE]
NoResult  == [unset |-> TRUE]

\* variant: the action is compared without regard to case
BuildRequest_AnyCase(l, tick) ==
    LET buy == l.action \in {JStr("BUY"), JStr("buy")}
    IN  [action       |-> "TRADE_ACTION_DEAL",
         symbol       |-> l.symbol,
         volume       |-> l.volume,
         type         |-> IF buy THEN "ORDER_TYPE_BUY" ELSE "ORDER_TYPE_SELL",
         price        |-> IF buy THEN tick.ask ELSE tick.bid,
         sl           |-> l.sl,
         tp           |-> l.tp,
         deviation    |-> 10,
         magic        |-> 202504,
         comment      |-> "Teaka AutoExec",
         type_time    |-> "ORDER_TIME_GTC",
         type_filling |-> "ORDER_FILLING_IOC"]

\* the order type, the price and the request dictionary
BuildRequest(l, tick) ==
    LET order_type == IF l.action = JStr("BUY")
                      THEN "ORDER_TYPE_BUY" ELSE "ORDER_TYPE_SELL"
        price      == IF l.action = JStr("BUY") THEN tick.ask ELSE tick.bid
    IN  [action       |-> "TRADE_ACTION_DEAL",
         symbol       |-> l.symbol,
         volume       |-> l.volume,
         type         |-> order_type,
         price        |-> price,
         sl           |-> l.sl,
         tp           |-> l.tp,
         deviation    |-> 10,
         magic        |-> 202504,
         comment      |-> "Teaka AutoExec",
         type_time    |-> "ORDER_TIME_GTC",
         type_filling |-> "ORDER_FILLING_IOC"]

\* variant: the rejection is raised as a ValueError
OrderFailed_AsValueError(res) ==
    Exc("ValueError", "Order failed: " \o res.comment)

\* the exception raised for a result that is not TRADE_RETCODE_DONE
OrderFailed(res) == Exc("Exception", "Order failed: " \o res.comment)

\* reading result.retcode when order_send returned None
NoRetcode ==
    Exc("AttributeError", "'NoneType' object has no attribute 'retcode'")

-----------------------------------------------------------------------------
(* Initial state: a fresh process, its arguments and standard input given *)

Init ==
    /\ \/ /\ args = [check_connection |-> TRUE]
          /\ stdin = NotJson
       \/ /\ args = [check_connection |-> FALSE]
          /\ stdin \in Signals \cup {NotJson}
    /\ pc = "main"
    /\ session = "closed"
    /\ calls = <<>>
    /\ stdout = <<>>
    /\ status = Running
    /\ signal_data = NoSignal
    /\ loc = NoLoc
    /\ request = NoRequest
    /\ result = NoResult

-----------------------------------------------------------------------------
(* Actions *)

\* variant: JSONDecodeError is swallowed without a message
Main_SilentOnBadJson ==
    /\ pc = "main"
    /\ \/ /\ args.check_connection
          /\ pc' = "cc_initialize"
          /\ UNCHANGED <<stdout, status, signal_data>>
       \/ /\ ~args.check_connection
          /\ stdin = NotJson
          /\ status' = <<0>>
          /\ pc' = "done"
          /\ UNCHANGED <<stdout, signal_data>>
       \/ /\ ~args.check_connection
          /\ stdin # NotJson
          /\ signal_data' = stdin
          /\ pc' = "et_initialize"
          /\ UNCHANGED <<stdout, status>>
    /\ UNCHANGED <<args, stdin, session, calls, loc, request, result>>

\* the __main__ block up to the call of check_connection or execute_trade;
\* on JSONDecodeError it prints INVALID_JSON and the process ends
Main ==
    /\ pc = "main"
    /\ \/ /\ args.check_connection
          /\ pc' = "cc_initialize"
          /\ UNCHANGED <<stdout, status, signal_data>>
       \/ /\ ~args.check_connection
          /\ stdin = NotJson
          /\ stdout' = Append(stdout, InvalidJson)
          /\ status' = <<0>>
          /\ pc' = "done"
          /\ UNCHANGED signal_data
       \/ /\ ~args.check_connection
          /\ stdin # NotJson
          /\ signal_data' = stdin
          /\ pc' = "et_initialize"
          /\ UNCHANGED <<stdout, status>>
    /\ UNCHANGED <<args, stdin, session, calls, loc, request, result>>

\* where initialize_mt5 returns to
AfterInitialize(p) ==
    IF p = "cc_initialize" THEN "cc_account_info" ELSE "et_validate"

\* initialize_mt5, called first by both operations: on failure it prints the
\* error with last_error(), calls shutdown and sys.exit(1); SystemExit is no
\* Exception, so no except clause of the caller catches it
InitializeMT5 ==
    /\ pc \in {"cc_initialize", "et_initialize"}
    /\ \/ /\ session' = "open"
          /\ calls' = Append(calls, Call("initialize", Absent, Flag(TRUE)))
          /\ pc' = AfterInitialize(pc)
          /\ UNCHANGED <<stdout, status>>
       \/ \E code \in LastErrors :
            /\ calls' = calls \o <<Call("initialize", Absent, Flag(FALSE)),
                                   Call("last_error", Absent, [code |-> code]),
                                   Shutdown>>
            /\ stdout' = Append(stdout, InitializationFailed(code))
            /\ status' = <<1>>
            /\ pc' = "done"
            /\ UNCHANGED session
    /\ UNCHANGED <<args, stdin, signal_data, loc, request, result>>

\* check_connection after initialize_mt5: the account query, the result
\* object, shutdown; the except clause prints CONNECTION_ERROR and returns.
\* The process then ends with status 0.
CheckConnection ==
    /\ pc = "cc_account_info"
    /\ \/ \E account_info \in Accounts \cup {None} :
            /\ stdout' = Append(stdout, ConnectionResult(account_info))
            /\ calls' = calls \o <<Call("account_info", Absent, account_info),
                                   Shutdown>>
            /\ session' = "closed"
       \/ \E e \in TerminalErrors :
            /\ stdout' = Append(stdout, ConnectionError(e))
            /\ calls' = Append(calls, Call("account_info", Absent, Raised(e)))
            /\ UNCHANGED session
    /\ status' = <<0>>
    /\ pc' = "done"
    /\ UNCHANGED <<args, stdin, signal_data, loc, request, result>>

\* variant: the except clauses end the process with sys.exit(1)
Except_ExitsNonZero(e, c) ==
    /\ stdout' = Append(stdout, ExceptClause(e))
    /\ calls' = Append(c, Shutdown)
    /\ session' = "closed"
    /\ status' = <<1>>
    /\ pc' = "done"

\* execute_trade's except clauses, entered with exception e after the calls c:
\* print the error object, shutdown, return; the process ends with status 0
Except(e, c) ==
    /\ stdout' = Append(stdout, ExceptClause(e))
    /\ calls' = Append(c, Shutdown)
    /\ session' = "closed"
    /\ status' = <<0>>
    /\ pc' = "done"

\* execute_trade: the required-field loop and the coercions
ValidateSignal ==
    /\ pc = "et_validate"
    /\ LET r == Validate(signal_data)
       IN  IF r.exc = NoExc
           THEN /\ loc' = r.loc
                /\ pc' = "et_symbol_info"
                /\ UNCHANGED <<stdout, calls, session, status>>
           ELSE /\ Except(r.exc, calls)
                /\ UNCHANGED loc
    /\ UNCHANGED <<args, stdin, signal_data, request, result>>

\* variant: the visibility test is inverted
AfterSymbolInfo_Inverted(symbol_info) ==
    IF symbol_info.visible THEN "et_symbol_select" ELSE "et_symbol_info_tick"

\* where execute_trade goes on with the instrument found
AfterSymbolInfo(symbol_info) ==
    IF ~symbol_info.visible THEN "et_symbol_select" ELSE "et_symbol_info_tick"

\* execute_trade: the instrument lookup
SymbolInfo ==
    /\ pc = "et_symbol_info"
    /\ LET c(r) == Append(calls, Call("symbol_info", loc.symbol, r))
       IN  \/ Except(Exc("ValueError",
                         "Symbol " \o PyStr(loc.symbol) \o " not found"), c(None))
           \/ \E symbol_info \in SymbolInfos :
                /\ calls' = c(symbol_info)
                /\ pc' = AfterSymbolInfo(symbol_info)
                /\ UNCHANGED <<stdout, session, status>>
           \/ \E e \in TerminalErrors : Except(e, c(Raised(e)))
    /\ UNCHANGED <<args, stdin, signal_data, loc, request, result>>

\* execute_trade: making an instrument that is not visible visible
SymbolSelect ==
    /\ pc = "et_symbol_select"
    /\ LET c(r) == Append(calls, Call("symbol_select", loc.symbol, r))
       IN  \/ /\ calls' = c(Flag(TRUE))
              /\ pc' = "et_symbol_info_tick"
              /\ UNCHANGED <<stdout, session, status>>
           \/ Except(Exc("ValueError",
                         "Symbol " \o PyStr(loc.symbol) \o " selection failed"),
                     c(Flag(FALSE)))
           \/ \E e \in TerminalErrors : Except(e, c(Raised(e)))
    /\ UNCHANGED <<args, stdin, signal_data, loc, request, result>>

\* execute_trade: the quote and the request built from it
SymbolInfoTick ==
    /\ pc = "et_symbol_info_tick"
    /\ LET c(r) == Append(calls, Call("symbol_info_tick", loc.symbol, r))
       IN  \/ /\ Except(Exc("ValueError",
                            "Failed to get price for " \o PyStr(loc.symbol)),
                        c(None))
              /\ UNCHANGED request
           \/ \E tick \in Ticks :
                /\ request' = BuildRequest(loc, tick)
                /\ calls' = c(tick)
                /\ pc' = "et_order_send"
                /\ UNCHANGED <<stdout, session, status>>
           \/ \E e \in TerminalErrors :
                /\ Except(e, c(Raised(e)))
                /\ UNCHANGED request
    /\ UNCHANGED <<args, stdin, signal_data, loc, result>>

\* variant: a partly executed order counts as executed too
OrderDone_AcceptsPartial(res) ==
    res.retcode \in {"TRADE_RETCODE_DONE", "TRADE_RETCODE_DONE_PARTIAL"}

\* whether execute_trade takes the result for an executed order
OrderDone(res) == res.retcode = "TRADE_RETCODE_DONE"

\* execute_trade: the submission, the success response or the exception
OrderSend ==
    /\ pc = "et_order_send"
    /\ LET c(r) == Append(calls, Call("order_send", request, r))
       IN  \/ \E res \in OrderResults(request) :
                /\ result' = res
                /\ IF OrderDone(res)
                   THEN /\ stdout' = Append(stdout, SuccessResponse(res))
                        /\ calls' = Append(c(res), Shutdown)
                        /\ session' = "closed"
                        /\ status' = <<0>>
                        /\ pc' = "done"
                   ELSE Except(OrderFailed(res), c(res))
           \/ /\ result' = None
              /\ Except(NoRetcode, c(None))
           \/ \E e \in TerminalErrors :
                /\ Except(e, c(Raised(e)))
                /\ UNCHANGED result
    /\ UNCHANGED <<args, stdin, signal_data, loc, request>>

Next ==
    \/ Main
    \/ InitializeMT5
    \/ CheckConnection
    \/ ValidateSignal
    \/ SymbolInfo
    \/ SymbolSelect
    \/ SymbolInfoTick
    \/ OrderSend

Spec == Init /\ [][Next]_vars

TypeOK ==
    /\ pc \in {"main", "cc_initialize", "cc_account_info", "et_initialize",
               "et_validate", "et_symbol_info", "et_symbol_select",
               "et_symbol_info_tick", "et_order_send", "done"}
    /\ session \in {"closed", "open"}
    /\ status \in {Running, <<0>>, <<1>>}
    /\ (status = Running) <=> (pc # "done")

-----------------------------------------------------------------------------
(* Vocabulary of the properties *)

Ended == pc = "done"

Trade == ~args.check_connection

CallsOf(f) == {i \in 1..Len(calls) : calls[i].f = f}

Called(f) == CallsOf(f) # {}

\* what the call of f returned, when f was called once
Returned(f) == calls[CHOOSE i \in CallsOf(f) : TRUE].ret

\* mt5.initialize() returned true, returned false
Opened     == \E i \in CallsOf("initialize") : calls[i].ret = Flag(TRUE)
OpenFailed == \E i \in CallsOf("initialize") : calls[i].ret = Flag(FALSE)

SessionCalls == {"initialize", "last_error", "shutdown"}

\* the signal is a JSON object with all five keys
Complete(sig) ==
    sig.kind = "dict" /\ \A f \in FieldNames : sig.val[f] # Absent

\* a JSON value that denotes a number, and the number
Numeric(v) ==
    v.t \in {"num", "bool"} \/ (v.t = "str" /\ v.s \in DOMAIN FloatLiterals)

NumberOf(v) == IF v.t = "str" THEN FloatLiterals[v.s] ELSE v.n

WellFormed(sig) ==
    Complete(sig) /\ \A f \in {"volume", "tp", "sl"} : Numeric(sig.val[f])

\* the first of the five fields, in the fixed order, that sig lacks
FirstMissing(sig) ==
    required_fields[CHOOSE i \in 1..5 :
                        /\ sig.val[required_fields[i]] = Absent
                        /\ \A j \in 1..(i - 1) : sig.val[required_fields[j]] # Absent]

Failure(type, msg) ==
    [success |-> FALSE, error |-> [type |-> type, message |-> msg]]

\* the error type of an output object, "" when it has none
ErrorType(o) ==
    IF "error" \in DOMAIN o /\ "type" \in DOMAIN o.error THEN o.error.type ELSE ""

IsResult(r) == "retcode" \in DOMAIN r

\* order_send returned a result with status TRADE_RETCODE_DONE
DoneReturned ==
    /\ Called("order_send")
    /\ IsResult(Returned("order_send"))
    /\ Returned("order_send").retcode = "TRADE_RETCODE_DONE"

\* order_send returned a result with another status
RejectReturned ==
    /\ Called("order_send")
    /\ IsResult(Returned("order_send"))
    /\ Returned("order_send").retcode # "TRADE_RETCODE_DONE"

\* the symbol of the signal as the messages show it
SymbolText == PyStr(signal_data.val["symbol"])

-----------------------------------------------------------------------------
(* C1: on every path on which the session was opened, the session is closed *)
(* when the process ends.  Stated as: no ended state has the session open.  *)
(* check_connection's except clause returns without shutdown, so this fails.*)
C1_SessionClosedAtExit == Ended => session = "closed"

(* C2: the process ends with status 1 exactly when mt5.initialize() returned *)
(* false, and then the only terminal calls made are initialize, last_error   *)
(* and shutdown; in every other case it ends with status 0.                  *)
C2_ExitStatus ==
    Ended =>
        /\ status \in {<<0>>, <<1>>}
        /\ (status = <<1>>) <=> OpenFailed
        /\ OpenFailed => \A i \in 1..Len(calls) : calls[i].f \in SessionCalls

C2_Witness ==
    /\ Ended
    /\ status = <<1>>
    /\ calls[Len(calls)] = Shutdown
    /\ Called("last_error")

(* C3: every invocation has written exactly one JSON object when it ends,   *)
(* and never more than one at any time.                                     *)
C3_ExactlyOneOutput ==
    /\ Len(stdout) <= 1
    /\ Ended => Len(stdout) = 1

C3_Witness ==
    /\ Ended
    /\ Trade
    /\ stdin = NotJson
    /\ stdout = <<Failure("INVALID_JSON", "Failed to parse signal data")>>

(* C4, as stated: no terminal call, not even opening the session, precedes  *)
(* the field validation, and a signal with a missing or non-coercible field *)
(* causes no terminal call.                                                 *)
C4_NoCallBeforeValidation ==
    /\ pc = "et_validate" => calls = <<>>
    /\ (Trade /\ signal_data # NoSignal /\ ~WellFormed(signal_data))
           => calls = <<>>

(* C4, amended: the only terminal call that precedes the field validation   *)
(* is the successful mt5.initialize(), and a signal with a missing or       *)
(* non-coercible field causes no terminal call other than initialize,       *)
(* last_error and shutdown.                                                 *)
C4_OnlySessionCallsBeforeValidation ==
    /\ pc = "et_validate" => calls = <<Call("initialize", Absent, Flag(TRUE))>>
    /\ (Trade /\ signal_data # NoSignal /\ ~WellFormed(signal_data))
           => \A i \in 1..Len(calls) : calls[i].f \in SessionCalls

C4_Witness ==
    /\ Ended
    /\ Complete(signal_data)
    /\ ~Numeric(signal_data.val["tp"])
    /\ calls = <<Call("initialize", Absent, Flag(TRUE)), Shutdown>>

(* C5: for a signal (a JSON object) that lacks one or more of the five      *)
(* fields, execute_trade, once the session is open, prints VALIDATION_ERROR *)
(* "Missing required field: <name>" with <name> the first missing field in  *)
(* the order symbol, volume, action, tp, sl, and submits no order.          *)
C5_FirstMissingFieldReported ==
    (Ended /\ Trade /\ Opened /\ signal_data.kind = "dict"
        /\ ~Complete(signal_data))
    => /\ stdout = <<Failure("VALIDATION_ERROR",
                             "Missing required field: "
                                 \o FirstMissing(signal_data))>>
       /\ ~Called("order_send")

C5_Witness ==
    /\ Ended
    /\ Opened
    /\ signal_data.kind = "dict"
    /\ signal_data.has = {"symbol", "volume", "sl"}
    /\ stdout = <<Failure("VALIDATION_ERROR", "Missing required field: action")>>

(* C6: every failure before the order is submitted (field presence,         *)
(* coercion, instrument resolution, quote) is printed as VALIDATION_ERROR,  *)
(* only failures of the submission as EXECUTION_ERROR; in particular a      *)
(* non-numeric volume, tp or sl gives VALIDATION_ERROR.  float(None) raises *)
(* TypeError, which the second except clause prints, so this fails.         *)
C6_ErrorKindByStep ==
    (Ended /\ Trade /\ Opened /\ signal_data.kind = "dict")
    => /\ ~Called("order_send") => ErrorType(stdout[1]) = "VALIDATION_ERROR"
       /\ ErrorType(stdout[1]) = "EXECUTION_ERROR" => Called("order_send")
       /\ (Complete(signal_data) /\ ~WellFormed(signal_data))
              => ErrorType(stdout[1]) = "VALIDATION_ERROR"

(* C7, as stated: when order_send returns a result whose retcode is not     *)
(* TRADE_RETCODE_DONE, the output is EXECUTION_ERROR whose message is the   *)
(* comment of the result, and the session is closed afterwards.             *)
C7_RejectedReportsComment ==
    (Ended /\ RejectReturned)
    => /\ stdout = <<Failure("EXECUTION_ERROR", Returned("order_send").comment)>>
       /\ session = "closed"
       /\ calls[Len(calls)] = Shutdown

(* C7, amended: when order_send returns a result whose retcode is not       *)
(* TRADE_RETCODE_DONE, the output is EXECUTION_ERROR whose message is       *)
(* "Order failed: " followed by the comment of the result, and the session  *)
(* is closed afterwards.                                                    *)
C7_RejectedReportsOrderFailed ==
    (Ended /\ RejectReturned)
    => /\ stdout = <<Failure("EXECUTION_ERROR",
                             "Order failed: " \o Returned("order_send").comment)>>
       /\ session = "closed"
       /\ calls[Len(calls)] = Shutdown

C7_Witness ==
    /\ Ended
    /\ RejectReturned
    /\ Returned("order_send").retcode = "TRADE_RETCODE_REJECT"
    /\ stdout = <<Failure("EXECUTION_ERROR", "Order failed: Request rejected")>>

(* C8: an unknown symbol gives VALIDATION_ERROR "Symbol <symbol> not found"; *)
(* symbol_select(symbol) is called if and only if the instrument was found  *)
(* and is not visible, and when it fails the output is VALIDATION_ERROR      *)
(* "Symbol <symbol> selection failed"; an unavailable quote gives            *)
(* VALIDATION_ERROR "Failed to get price for <symbol>"; in all three cases   *)
(* no order is submitted.                                                    *)
C8_InstrumentResolution ==
    /\ (Called("symbol_info") /\ Returned("symbol_info") = None)
           => /\ Ended
              /\ stdout = <<Failure("VALIDATION_ERROR",
                                    "Symbol " \o SymbolText \o " not found")>>
              /\ ~Called("order_send")
    /\ Called("symbol_select")
           => /\ Called("symbol_info")
              /\ Returned("symbol_info") = [visible |-> FALSE]
              /\ calls[CHOOSE i \in CallsOf("symbol_select") : TRUE].arg
                     = signal_data.val["symbol"]
    /\ (Called("symbol_info") /\ Returned("symbol_info") = [visible |-> FALSE]
            /\ pc # "et_symbol_select")
           => Called("symbol_select")
    /\ (Called("symbol_select") /\ Returned("symbol_select") = Flag(FALSE))
           => /\ Ended
              /\ stdout = <<Failure("VALIDATION_ERROR",
                                    "Symbol " \o SymbolText
                                        \o " selection failed")>>
              /\ ~Called("order_send")
    /\ (Called("symbol_info_tick") /\ Returned("symbol_info_tick") = None)
           => /\ Ended
              /\ stdout = <<Failure("VALIDATION_ERROR",
                                    "Failed to get price for " \o SymbolText)>>
              /\ ~Called("order_send")

C8_Witness ==
    /\ Ended
    /\ Called("symbol_select")
    /\ Returned("symbol_select") = Flag(FALSE)
    /\ stdout = <<Failure("VALIDATION_ERROR", "Symbol EURUSD selection failed")>>

(* C9: the request takes side and price from the action: "BUY" gives a buy  *)
(* order at the quote's ask, every other action value a sell order at the   *)
(* quote's bid, and the request is then submitted whatever the action;      *)
(* symbol, volume, sl and tp are those of the signal (volume, sl and tp as  *)
(* the numbers they denote) and the policy fields are fixed.                *)
C9_RequestFromSignal ==
    request # NoRequest
    => LET s    == signal_data.val
           tick == Returned("symbol_info_tick")
       IN  /\ s["action"] = JStr("BUY")
                  => request.type = "ORDER_TYPE_BUY" /\ request.price = tick.ask
           /\ s["action"] # JStr("BUY")
                  => request.type = "ORDER_TYPE_SELL" /\ request.price = tick.bid
           /\ request.symbol = s["symbol"]
           /\ request.volume = NumberOf(s["volume"])
           /\ request.sl = NumberOf(s["sl"])
           /\ request.tp = NumberOf(s["tp"])
           /\ request.action = "TRADE_ACTION_DEAL"
           /\ request.deviation = 10
           /\ request.magic = 202504
           /\ request.comment = "Teaka AutoExec"
           /\ request.type_time = "ORDER_TIME_GTC"
           /\ request.type_filling = "ORDER_FILLING_IOC"
           /\ Ended => Called("order_send")
           /\ Called("order_send")
                  => calls[CHOOSE i \in CallsOf("order_send") : TRUE].arg = request

C9_Witness ==
    /\ Ended
    /\ signal_data.val["action"] = JStr("buy")
    /\ signal_data.val["sl"] = JStr("3")
    /\ signal_data.val["tp"] = JNum(2)
    /\ Called("order_send")
    /\ request.type = "ORDER_TYPE_SELL"
    /\ request.price = 11
    /\ request.sl = 3

(* C10: order_send is called at most once, and only with the session open,  *)
(* all five fields present and volume/tp/sl coerced, the instrument found   *)
(* (and selected when it was not visible) and a quote available; a success  *)
(* response is printed if and only if that call returned                    *)
(* TRADE_RETCODE_DONE, and its ticket is the order id the terminal returned.*)
C10_SingleSubmission ==
    /\ Cardinality(CallsOf("order_send")) <= 1
    /\ Called("order_send")
           => LET k == CHOOSE i \in CallsOf("order_send") : TRUE
              IN  /\ WellFormed(signal_data)
                  /\ calls[1] = Call("initialize", Absent, Flag(TRUE))
                  /\ \A i \in 1..(k - 1) : calls[i].f # "shutdown"
                  /\ \E i \in 1..(k - 1) :
                        /\ calls[i].f = "symbol_info"
                        /\ calls[i].ret \in SymbolInfos
                        /\ ~calls[i].ret.visible
                               => calls[i + 1]
                                      = Call("symbol_select",
                                             signal_data.val["symbol"], Flag(TRUE))
                  /\ calls[k - 1].f = "symbol_info_tick"
                  /\ calls[k - 1].ret \in Ticks
    /\ Ended => ((\E i \in 1..Len(stdout) :
                      "order" \in DOMAIN stdout[i] /\ stdout[i].success)
                     <=> DoneReturned)
    /\ \A i \in 1..Len(stdout) :
           "order" \in DOMAIN stdout[i]
               => stdout[i].order.ticket = Returned("order_send").order

C10_Witness ==
    /\ Ended
    /\ DoneReturned
    /\ "order" \in DOMAIN stdout[1]
    /\ stdout[1].success
    /\ stdout[1].order.ticket = 7001
    /\ Cardinality(CallsOf("order_send")) = 1

====
